---------------------------- MODULE Spec2Model ----------------------------
(***************************************************************************)
(* Storefront backend: the Storage Port (MemStorage, PgStorage,            *)
(* MongoDbStorage), the id generators, and the request handlers that       *)
(* compose Storage Port calls (POST /cart, DELETE /cart/:id, POST /orders).*)
(*                                                                         *)
(* Every Storage Port method returns a Promise and every handler awaits    *)
(* it, so a handler is a sequence of steps, one per awaited storage call   *)
(* together with the synchronous code that follows it; steps of different  *)
(* requests interleave freely.  An absent value (undefined / null) is the  *)
(* empty sequence << >>, a present value v is << v >>.                     *)
(***************************************************************************)
EXTENDS Integers, Sequences, FiniteSets, TLC

\* ------------------------------------------------------------------ bounds
\* Number of requests the server receives in a run.
MaxRequests == 3
\* Number of callers of getNextId in SpecSeq.
NumCallers == 3
\* Number of direct Storage Port calls in SpecPort.
MaxCalls == 3
\* Latest clock reading in SpecPort.
MaxClock == 2

Backends == {"mem", "pg", "mongo"}
Reqs == {1, 2}
Users == {1, 2}
ProductIds == {1, 2}
RequestedProductIds == {1, 2, 9}
Quantities == {1}
\* The products the catalog owner withdraws from the durable store in a run.
Withdrawn == {2}
Totals == {28}
Addresses == {"street"}
Collections == {"users", "categories", "products", "orders", "orderItems", "cartItems"}

VARIABLES
    backend,      \* which adapter `storage` is
    products,     \* Product records, in insertion order
    users,        \* User records
    categories,   \* Category records
    orders,       \* Order records
    orderItems,   \* OrderItem records
    cartItems,    \* CartItem records
    counters,     \* the id generator's state, per collection
    clock,        \* the value new Date() / defaultNow() yields
    req,          \* the requests in flight: each handler's position and locals
    received,     \* how many requests have been received so far
    issued,       \* history: the ids the generators returned, per collection, in order
    callers,      \* SpecSeq: the concurrent callers of getNextId
    port,         \* SpecPort: the last two direct Storage Port calls, oldest first
    calls,        \* SpecPort: how many Storage Port calls were made
    boot,         \* initializeMongoDbStorage: its position, the global property it
                  \* sets, and what it returned or raised
    sent          \* the last response recorded (absent before the first): auth
                  \* handlers, GET /orders/:id, and the 500 of a failed checkout

vars == <<backend, products, users, categories, orders, orderItems, cartItems,
          counters, clock, req, received, issued, callers, port, calls, boot, sent>>

\* ------------------------------------------------------------- collections
Present(opt) == opt # << >>

The(opt) == opt[1]

\* Array.prototype.find / findOne / select ... limit(1): the first match or absent.
\* (the matches are passed in, already filtered)
find(m) == IF m = << >> THEN << >> ELSE <<Head(m)>>

Ids(s) == {s[i].id : i \in DOMAIN s}

\* Map.set(id, rec): a new key goes last, an existing key keeps its place.
MapSet(s, rec) ==
    IF rec.id \in Ids(s)
    THEN [i \in DOMAIN s |-> IF s[i].id = rec.id THEN rec ELSE s[i]]
    ELSE Append(s, rec)


\* ------------------------------------------------------------ id generators
\* Faulty variant of MemNextId (used to test the properties): the counter is read but never incremented.
MemNextIdNoIncrement(cnt, c) == [value |-> cnt[c], counters |-> cnt]

\* MemStorage: const id = this.xId++ (the counter holds the next id).
MemNextId(cnt, c) == [value |-> cnt[c], counters |-> [cnt EXCEPT ![c] = @ + 1]]

\* Faulty variant of PgNextId (used to test the properties): the sequence is
\* read but not advanced.
PgNextIdNotAdvanced(cnt, c) == [value |-> cnt[c] + 1, counters |-> cnt]

\* PgStorage: the serial column's sequence, advanced by the insert itself.
PgNextId(cnt, c) == [value |-> cnt[c] + 1, counters |-> [cnt EXCEPT ![c] = @ + 1]]

\* Faulty variant of getNextId (used to test the properties): the incremented value is returned but not stored, as
\* when a read-then-write loses the update.
getNextIdNotStored(cnt, c) == [value |-> cnt[c] + 1, counters |-> cnt]

\* MongoDbStorage.getNextId: one findOneAndUpdate with $inc, upsert and
\* returnDocument 'after' (an absent counter document counts as 0).
getNextId(cnt, c) == [value |-> cnt[c] + 1, counters |-> [cnt EXCEPT ![c] = @ + 1]]

\* The driver's insertOne adds a fresh _id to the document it is handed.
ObjectId(c, id) == <<c, id>>

\* insertOne(doc): doc is mutated to carry _id, and stored.
insertOne(c, doc) ==
    [f \in DOMAIN doc \cup {"_id"} |-> IF f = "_id" THEN ObjectId(c, doc.id) ELSE doc[f]]

\* ------------------------------------------------------------ Storage Port
\* Faulty variant of getProductById (used to test the properties): the id is
\* not compared, the first product is returned.
getProductByIdUnfiltered(ps, id) == find(ps)

getProductById(ps, id) == find(SelectSeq(ps, LAMBDA p : p.id = id))

getProductsByIds(ps, ids) == SelectSeq(ps, LAMBDA p : p.id \in ids)

getCartItems(ci, userId) == SelectSeq(ci, LAMBDA it : it.userId = userId)

\* Faulty variant of getCartItem (used to test the properties): the two
\* arguments are matched against the wrong columns.
getCartItemSwapped(ci, userId, productId) ==
    find(SelectSeq(ci, LAMBDA it : it.userId = productId /\ it.productId = userId))

getCartItem(ci, userId, productId) ==
    find(SelectSeq(ci, LAMBDA it : it.userId = userId /\ it.productId = productId))

\* Faulty variant of getOrderById (used to test the properties): the id filter is dropped, the first Order is returned.
getOrderByIdAny(os, id) == IF os = << >> THEN << >> ELSE <<Head(os)>>

getOrderById(os, id) == find(SelectSeq(os, LAMBDA o : o.id = id))

getUser(us, id) == find(SelectSeq(us, LAMBDA u : u.id = id))

getUserByUsername(us, username) == find(SelectSeq(us, LAMBDA u : u.username = username))

getUserByEmail(us, email) == find(SelectSeq(us, LAMBDA u : u.email = email))

getCategoryBySlug(cs, slug) == find(SelectSeq(cs, LAMBDA c : c.slug = slug))

getCategoryById(cs, id) == find(SelectSeq(cs, LAMBDA c : c.id = id))

getOrderItems(ois, orderId) == SelectSeq(ois, LAMBDA it : it.orderId = orderId)

\* The record createX builds from the caller's fields and the generated id.
NewRecord(b, c, fields, id) ==
    LET rec == [f \in DOMAIN fields \cup {"id"} |-> IF f = "id" THEN id ELSE fields[f]]
    IN  IF b = "mongo" THEN insertOne(c, rec) ELSE rec

\* Faulty variant of NewOrder (used to test the properties): the caller's
\* total is not kept.
NewOrderWithoutTotal(b, order, id, date) ==
    NewRecord(b, "orders",
              [userId |-> order.userId, total |-> 0, status |-> order.status,
               address |-> order.address, createdAt |-> date], id)

\* createOrder: { ...order, id, createdAt: date }.
NewOrder(b, order, id, date) ==
    NewRecord(b, "orders",
              [userId |-> order.userId, total |-> order.total, status |-> order.status,
               address |-> order.address, createdAt |-> date], id)

\* Faulty variant of NewUser (used to test the properties): the caller's fields
\* are spread last, so a supplied isAdmin wins.
NewUserCallerWins(b, user, id) ==
    NewRecord(b, "users",
              [f \in DOMAIN user \cup {"isAdmin"} |->
                 IF f \in DOMAIN user THEN user[f] ELSE FALSE], id)

\* createUser: { ...user, id, isAdmin: false }.
NewUser(b, user, id) ==
    NewRecord(b, "users",
              [f \in DOMAIN user \cup {"isAdmin"} |->
                 IF f = "isAdmin" THEN FALSE ELSE user[f]], id)

\* createCategory: { ...category, id }.
NewCategory(b, category, id) == NewRecord(b, "categories", [slug |-> category.slug], id)

\* createProduct: { ...product, id, rating: 4.5, reviewCount: random in 1..200 }.
NewProduct(b, product, id, reviewCount) ==
    NewRecord(b, "products",
              [price |-> product.price, isOnSale |-> product.isOnSale,
               salePrice |-> product.salePrice, rating |-> "4.5",
               reviewCount |-> reviewCount], id)

\* Faulty variant of updateCartItem (used to test the properties): a row is
\* written even when no row has the id (an upsert).
updateCartItemUpsert(ci, id, quantity) ==
    LET row == [id |-> id, userId |-> 0, productId |-> 0, quantity |-> quantity]
    IN  [items |-> MapSet(ci, row), result |-> <<row>>]

\* updateCartItem(id, quantity): the updated row, or absent when no row has the id.
updateCartItem(ci, id, quantity) ==
    LET hit == find(SelectSeq(ci, LAMBDA it : it.id = id))
        upd == [The(hit) EXCEPT !.quantity = quantity]
    IN  IF Present(hit)
        THEN [items |-> MapSet(ci, upd), result |-> <<upd>>]
        ELSE [items |-> ci, result |-> << >>]

\* deleteCartItem(id): Map.delete's result in memory, deletedCount > 0 in the
\* document store, always true in the relational adapter.
deleteCartItem(b, ci, id) ==
    [items  |-> SelectSeq(ci, LAMBDA it : it.id # id),
     result |-> IF b = "pg" THEN TRUE ELSE id \in Ids(ci)]

\* Faulty variant of clearCart (used to test the properties): the userId filter is dropped, every cart is emptied.
clearCartOfEveryone(b, ci, userId) == [items |-> << >>, result |-> TRUE]

\* Faulty variant of clearCart (used to test the properties): only the user's
\* first row is removed (deleteOne in place of deleteMany).
clearCartFirstRow(b, ci, userId) ==
    LET mine == getCartItems(ci, userId)
    IN  [items  |-> IF mine = << >> THEN ci
                    ELSE SelectSeq(ci, LAMBDA it : it.id # Head(mine).id),
         result |-> TRUE]

\* clearCart(userId): removes every row of the user.
clearCart(b, ci, userId) ==
    [items  |-> SelectSeq(ci, LAMBDA it : it.userId # userId),
     result |-> IF b = "mongo" THEN getCartItems(ci, userId) # << >> ELSE TRUE]

\* ------------------------------------------------------------------- state
\* A product's pricing fields: price, isOnSale, salePrice (nullable).
Pricings ==
    [price : {10}, isOnSale : BOOLEAN, salePrice : {<< >>, <<0>>, <<8>>}]

\* The catalog of Spec: product 1 costs 10 and is on sale at 8, product 2 costs 20.
FirstPricing == [price |-> 10, isOnSale |-> TRUE, salePrice |-> <<8>>]

SecondPricing == [price |-> 20, isOnSale |-> FALSE, salePrice |-> << >>]

\* The sample admin user of initSampleData.
AdminFields ==
    [username |-> "admin", email |-> "admin@shopease.com",
     password |-> <<"password123", 0>>]

\* initializeMongoDbStorage has not been called.
NotStarting ==
    [pc |-> "none", connected |-> FALSE, global |-> << >>, returned |-> << >>,
     raised |-> FALSE]

\* A request slot with no request in it.
Idle ==
    [kind |-> "none", pc |-> "idle", user |-> 0, productId |-> 0, quantity |-> 0,
     total |-> 0, address |-> "", existing |-> << >>, order |-> << >>,
     cartSnap |-> << >>, prods |-> << >>, idx |-> 0, newId |-> << >>]

\* The stores as the constructor (and the catalog setup) leave them: two
\* products, and in memory one category and the sample admin user.
InitStores(b, pr) ==
    /\ backend = b
    /\ products = << NewProduct(b, pr, 1, 1), NewProduct(b, SecondPricing, 2, 1) >>
    /\ categories = << NewCategory(b, [slug |-> "electronics"], 1) >>
    /\ users = IF b = "mem" THEN << NewUser(b, AdminFields, 1) >> ELSE << >>
    /\ orders = << >>
    /\ orderItems = << >>
    /\ cartItems = << >>
    /\ issued = [c \in Collections |->
                   CASE c = "products" -> <<1, 2>>
                     [] c = "categories" -> <<1>>
                     [] c = "users" -> IF b = "mem" THEN <<1>> ELSE << >>
                     [] OTHER -> << >>]
    /\ counters = [c \in Collections |->
                     Len(issued[c]) + (IF b = "mem" THEN 1 ELSE 0)]
    /\ clock = 1

InitRequests ==
    /\ req = [r \in Reqs |-> Idle]
    /\ received = 0
    /\ callers = << >>
    /\ port = << >>
    /\ calls = 0
    /\ boot = NotStarting
    /\ sent = << >>

Init ==
    /\ \E b \in Backends : InitStores(b, FirstPricing)
    /\ InitRequests

\* The same server over a catalog whose first product has any pricing.
InitPrice ==
    /\ \E b \in Backends, pr \in Pricings : InitStores(b, pr)
    /\ InitRequests

\* ---------------------------------------------------------------- handlers
Free(r) == req[r].pc = "idle"

\* A request arrives and is handed to the first free slot r (slots are only
\* names for the requests in flight, at most two at a time).
Receive(r) ==
    /\ Free(r)
    /\ \A r2 \in Reqs : r2 < r => ~Free(r2)
    /\ received < MaxRequests
    /\ received' = received + 1

\* res.status(code).json(...): the request is over and its locals are gone.
Respond(code) == Idle

\* The collection a create step writes.
CreateColl(pc) ==
    CASE pc = "createUser" -> "users"
      [] pc = "createOrder" -> "orders"
      [] pc = "createOrderItem" -> "orderItems"
      [] pc = "createCartItem" -> "cartItems"

CreatePcs == {"createUser", "createOrder", "createOrderItem", "createCartItem"}

\* The generated id of a create step: the in-memory counter and the serial
\* column yield it with the write; the document store's came from getNextId.
GenId(r) ==
    CASE backend = "mem" -> MemNextId(counters, CreateColl(req[r].pc))
      [] backend = "pg" -> PgNextId(counters, CreateColl(req[r].pc))
      [] backend = "mongo" ->
            [value |-> The(req[r].newId), counters |-> counters]

CanCreate(r) == backend = "mongo" => Present(req[r].newId)

Issue(c, g) ==
    /\ counters' = g.counters
    /\ issued' = [issued EXCEPT ![c] = Append(@, g.value)]

\* MongoDbStorage.createX, first await: id: await this.getNextId(collection).
CreateGetNextId(r) ==
    /\ backend = "mongo"
    /\ req[r].pc \in CreatePcs
    /\ ~Present(req[r].newId)
    /\ LET c == CreateColl(req[r].pc)
           g == getNextId(counters, c)
       IN  /\ Issue(c, g)
           /\ req' = [req EXCEPT ![r].newId = <<g.value>>]
    /\ UNCHANGED <<backend, products, users, categories, orders, orderItems,
                   cartItems, clock, received, callers, port, calls, boot, sent>>

\* What a create step leaves of the generator: in the document store the id
\* was issued by CreateGetNextId already.
IssueCreate(r) ==
    IF backend = "mongo"
    THEN UNCHANGED <<counters, issued>>
    ELSE Issue(CreateColl(req[r].pc), GenId(r))

\* Faulty variant of Insert (used to test the properties): the write lands on
\* the last record of the collection.
InsertOverLast(b, coll, rec) ==
    IF coll = << >> THEN <<rec>> ELSE [coll EXCEPT ![Len(coll)] = rec]

\* set(id, rec) on the Map, insertOne on the collection, insert on the table.
Insert(b, coll, rec) == IF b = "mem" THEN MapSet(coll, rec) ELSE Append(coll, rec)

StoresUnchanged ==
    UNCHANGED <<backend, products, users, categories, clock, callers, port, calls, boot, sent>>

\* A request body's quantity is any JSON value. NonNumeric stands for a string
\* that is no number ("abc"); every other quantity is the number itself.
NonNumeric == -1

\* JavaScript !quantity: undefined and 0 are falsy, a non-empty string is not.
JsNot(opt) == ~Present(opt) \/ The(opt) = 0

\* JavaScript quantity < 1: a string that is no number converts to NaN, and
\* every comparison with NaN is false.
JsLessThan1(q) == q # NonNumeric /\ q < 1

\* JavaScript a + b: with a string operand the result is the concatenation
\* ("abc" + 1 is "abc1"), again no number.
JsPlus(a, b) == IF a = NonNumeric \/ b = NonNumeric THEN NonNumeric ELSE a + b

\* POST /cart, up to the product check: 404 when the product does not exist.
AddToCart(r, u, p, q) ==
    /\ Receive(r)
    /\ req' = [req EXCEPT ![r] =
                 IF Present(getProductById(products, p))
                 THEN [Idle EXCEPT !.kind = "addToCart", !.pc = "getCartItem",
                                   !.user = u, !.productId = p, !.quantity = q]
                 ELSE Respond(404)]
    /\ UNCHANGED <<orders, orderItems, cartItems, counters, issued>>
    /\ StoresUnchanged

\* POST /cart: const existingCartItem = await storage.getCartItem(userId, productId).
AddToCartGetCartItem(r) ==
    /\ req[r].pc = "getCartItem"
    /\ LET existing == getCartItem(cartItems, req[r].user, req[r].productId)
       IN  req' = [req EXCEPT ![r].existing = existing,
                              ![r].pc = IF Present(existing) THEN "updateCartItem"
                                        ELSE "createCartItem"]
    /\ UNCHANGED <<orders, orderItems, cartItems, counters, issued>>
    /\ UNCHANGED received
    /\ StoresUnchanged

\* POST /cart, the row exists: updateCartItem(id, existing.quantity + quantity).
AddToCartUpdate(r) ==
    /\ req[r].pc = "updateCartItem"
    /\ LET old == The(req[r].existing)
           res == updateCartItem(cartItems, old.id, JsPlus(old.quantity, req[r].quantity))
       IN  /\ cartItems' = res.items
           /\ req' = [req EXCEPT ![r] = Respond(200)]
    /\ UNCHANGED <<orders, orderItems, counters, issued>>
    /\ UNCHANGED received
    /\ StoresUnchanged

\* POST /cart, no row: createCartItem({ userId, productId, quantity }).
AddToCartCreate(r) ==
    /\ req[r].pc = "createCartItem"
    /\ CanCreate(r)
    /\ LET item == NewRecord(backend, "cartItems",
                             [userId |-> req[r].user, productId |-> req[r].productId,
                              quantity |-> req[r].quantity], GenId(r).value)
       IN  cartItems' = Insert(backend, cartItems, item)
    /\ IssueCreate(r)
    /\ req' = [req EXCEPT ![r] = Respond(201)]
    /\ UNCHANGED <<orders, orderItems>>
    /\ UNCHANGED received
    /\ StoresUnchanged

\* DELETE /cart/:id: deleteCartItem(id), 404 when it reports no deletion.
DeleteCartItem(r, u, id) ==
    /\ Receive(r)
    /\ LET res == deleteCartItem(backend, cartItems, id)
       IN  /\ cartItems' = res.items
           /\ req' = [req EXCEPT ![r] = Respond(IF res.result THEN 200 ELSE 404)]
    /\ UNCHANGED <<orders, orderItems, counters, issued>>
    /\ StoresUnchanged

\* JavaScript truthiness of a nullable number: null and 0 are falsy.
Truthy(opt) == Present(opt) /\ The(opt) # 0

\* const price = product.isOnSale && product.salePrice ? product.salePrice : product.price
OrderItemPrice(product) ==
    IF product.isOnSale /\ Truthy(product.salePrice)
    THEN The(product.salePrice)
    ELSE product.price

\* Faulty variant of OrderItemFields (used to test the properties): the line's quantity is not copied.
OrderItemFieldsUnitQuantity(order, line, product) ==
    [orderId |-> order.id, productId |-> line.productId, quantity |-> 1,
     price |-> OrderItemPrice(product)]

\* The fields the checkout loop hands to createOrderItem for a cart line.
OrderItemFields(order, line, product) ==
    [orderId |-> order.id, productId |-> line.productId, quantity |-> line.quantity,
     price |-> OrderItemPrice(product)]

\* productsMap.get(item.productId): whether the cart line's product resolved.
Resolves(prods, line) == line.productId \in Ids(prods)

\* Faulty variant of NextLine (used to test the properties): the loop ends (break) at the first unresolved line.
NextLineStopping(lines, prods, i) ==
    IF i <= Len(lines) /\ Resolves(prods, lines[i]) THEN i ELSE Len(lines) + 1

\* The for loop's next line that is not skipped by `if (!product) continue`,
\* from position i on; Len + 1 when the loop has run out.
RECURSIVE NextLine(_, _, _)
NextLine(lines, prods, i) ==
    IF i > Len(lines) THEN Len(lines) + 1
    ELSE IF Resolves(prods, lines[i]) THEN i
    ELSE NextLine(lines, prods, i + 1)

\* POST /orders received: verifyToken and validateRequest passed.
Checkout(r, u, total, address) ==
    /\ Receive(r)
    /\ req' = [req EXCEPT ![r] =
                 [Idle EXCEPT !.kind = "checkout", !.pc = "createOrder", !.user = u,
                              !.total = total, !.address = address]]
    /\ UNCHANGED <<orders, orderItems, cartItems, counters, issued>>
    /\ StoresUnchanged

\* POST /orders: const order = await storage.createOrder({...}).
CheckoutCreateOrder(r) ==
    /\ req[r].pc = "createOrder"
    /\ CanCreate(r)
    /\ LET order == NewOrder(backend,
                             [userId |-> req[r].user, total |-> req[r].total,
                              status |-> "pending", address |-> req[r].address],
                             GenId(r).value, clock)
       IN  /\ orders' = Insert(backend, orders, order)
           /\ req' = [req EXCEPT ![r].order = <<order>>, ![r].newId = << >>,
                                  ![r].pc = "getCartItems"]
    /\ IssueCreate(r)
    /\ UNCHANGED <<orderItems, cartItems>>
    /\ UNCHANGED received
    /\ StoresUnchanged

\* POST /orders: const cartItems = await storage.getCartItems(userId); 400 when empty.
CheckoutGetCartItems(r) ==
    /\ req[r].pc = "getCartItems"
    /\ LET lines == getCartItems(cartItems, req[r].user)
       IN  req' = [req EXCEPT ![r] =
                    IF Len(lines) = 0 THEN Respond(400)
                    ELSE [req[r] EXCEPT !.cartSnap = lines, !.pc = "getProductsByIds"]]
    /\ UNCHANGED <<orders, orderItems, cartItems, counters, issued>>
    /\ UNCHANGED received
    /\ StoresUnchanged

\* POST /orders: const products = await storage.getProductsByIds(productIds),
\* then the loop up to its first createOrderItem call.
CheckoutGetProducts(r) ==
    /\ req[r].pc = "getProductsByIds"
    /\ LET lines == req[r].cartSnap
           prods == getProductsByIds(products, {lines[i].productId : i \in DOMAIN lines})
           i == NextLine(lines, prods, 1)
       IN  req' = [req EXCEPT ![r].prods = prods, ![r].idx = i,
                              ![r].pc = IF i > Len(lines) THEN "clearCart"
                                        ELSE "createOrderItem"]
    /\ UNCHANGED <<orders, orderItems, cartItems, counters, issued>>
    /\ UNCHANGED received
    /\ StoresUnchanged

\* POST /orders: await storage.createOrderItem({ orderId, productId, quantity, price })
\* for the current line, then the loop up to its next call.
CheckoutCreateOrderItem(r) ==
    /\ req[r].pc = "createOrderItem"
    /\ CanCreate(r)
    /\ LET lines == req[r].cartSnap
           line == lines[req[r].idx]
           product == The(getProductById(req[r].prods, line.productId))
           item == NewRecord(backend, "orderItems",
                             OrderItemFields(The(req[r].order), line, product),
                             GenId(r).value)
           i == NextLine(lines, req[r].prods, req[r].idx + 1)
       IN  /\ orderItems' = Insert(backend, orderItems, item)
           /\ req' = [req EXCEPT ![r].idx = i, ![r].newId = << >>,
                                  ![r].pc = IF i > Len(lines) THEN "clearCart"
                                            ELSE "createOrderItem"]
    /\ IssueCreate(r)
    /\ UNCHANGED <<orders, cartItems>>
    /\ UNCHANGED received
    /\ StoresUnchanged

\* POST /orders: await storage.clearCart(userId); res.status(201).json({ order }).
CheckoutClearCart(r) ==
    /\ req[r].pc = "clearCart"
    /\ cartItems' = clearCart(backend, cartItems, req[r].user).items
    /\ req' = [req EXCEPT ![r] = Respond(201)]
    /\ UNCHANGED <<orders, orderItems, counters, issued>>
    /\ UNCHANGED received
    /\ StoresUnchanged

\* A product row removed from the durable store between cart-add and checkout
\* (the in-memory adapter has no way to remove a product).
DeleteProduct(p) ==
    /\ backend # "mem"
    /\ p \in Ids(products)
    /\ products' = SelectSeq(products, LAMBDA x : x.id # p)
    /\ UNCHANGED <<backend, users, categories, orders, orderItems, cartItems,
                   counters, clock, req, received, issued, callers, port, calls, boot, sent>>

Next ==
    \/ \E r \in Reqs, u \in Users, p \in RequestedProductIds, q \in Quantities :
            AddToCart(r, u, p, q)
    \/ \E r \in Reqs : AddToCartGetCartItem(r)
    \/ \E r \in Reqs : AddToCartUpdate(r)
    \/ \E r \in Reqs : AddToCartCreate(r)
    \/ \E r \in Reqs, u \in Users, id \in 1..MaxRequests : DeleteCartItem(r, u, id)
    \/ \E r \in Reqs, u \in Users, t \in Totals, a \in Addresses : Checkout(r, u, t, a)
    \/ \E r \in Reqs : CreateGetNextId(r)
    \/ \E r \in Reqs : CheckoutCreateOrder(r)
    \/ \E r \in Reqs : CheckoutGetCartItems(r)
    \/ \E r \in Reqs : CheckoutGetProducts(r)
    \/ \E r \in Reqs : CheckoutCreateOrderItem(r)
    \/ \E r \in Reqs : CheckoutClearCart(r)
    \/ \E p \in Withdrawn : DeleteProduct(p)

Spec == Init /\ [][Next]_vars

SpecPrice == InitPrice /\ [][Next]_vars

\* --------------------------------------- catalog price changes (SpecReprice)
\* The pricing the catalog owner gives a product after orders were placed.
NewPricing == [price |-> 30, isOnSale |-> FALSE, salePrice |-> << >>]

\* The products whose pricing changes in a run.
Repriced == {1}

\* The price, isOnSale and salePrice of product p are changed in the store.
Reprice(p, pr) ==
    /\ products' = [i \in DOMAIN products |->
                      IF products[i].id = p
                      THEN [products[i] EXCEPT !.price = pr.price,
                                               !.isOnSale = pr.isOnSale,
                                               !.salePrice = pr.salePrice]
                      ELSE products[i]]
    /\ products' # products
    /\ UNCHANGED <<backend, users, categories, orders, orderItems, cartItems,
                   counters, clock, req, received, issued, callers, port, calls, boot, sent>>

NextReprice ==
    \/ Next
    \/ \E p \in Repriced : Reprice(p, NewPricing)

SpecReprice == Init /\ [][NextReprice]_vars

\* ------------------------------------------- concurrent getNextId (SpecSeq)
Callers == 1..NumCallers

SeqCollections == {"orders", "products"}

InitSeq ==
    /\ InitStores("mongo", FirstPricing)
    /\ req = [r \in Reqs |-> Idle]
    /\ received = 0
    /\ callers = [k \in Callers |-> [pc |-> "idle", coll |-> "", value |-> 0]]
    /\ port = << >>
    /\ calls = 0
    /\ boot = NotStarting
    /\ sent = << >>

\* Caller k calls getNextId(c): the findOneAndUpdate command is on its way.
SeqCall(k, c) ==
    /\ callers[k].pc = "idle"
    /\ callers' = [callers EXCEPT ![k] = [pc |-> "calling", coll |-> c, value |-> 0]]
    /\ UNCHANGED <<backend, products, users, categories, orders, orderItems, cartItems,
                   counters, clock, req, received, issued, port, calls, boot, sent>>

\* The store executes caller k's findOneAndUpdate and the caller gets
\* result.sequence_value.
SeqReturn(k) ==
    /\ callers[k].pc = "calling"
    /\ LET g == getNextId(counters, callers[k].coll)
       IN  /\ Issue(callers[k].coll, g)
           /\ callers' = [callers EXCEPT ![k].pc = "returned", ![k].value = g.value]
    /\ UNCHANGED <<backend, products, users, categories, orders, orderItems, cartItems,
                   clock, req, received, port, calls, boot, sent>>

NextSeq ==
    \/ \E k \in Callers, c \in SeqCollections : SeqCall(k, c)
    \/ \E k \in Callers : SeqReturn(k)

SpecSeq == InitSeq /\ [][NextSeq]_vars

\* ------------------------------------------ direct port calls (SpecPort)
UserInputs == [username : {"ann", "bob"}, email : {"ann@x.org"}, password : {"hash1"}]

CategoryInputs == [slug : {"toys"}]

ProductInputs == {SecondPricing}

OrderInputs ==
    [userId : Users, total : Totals, status : {"pending"}, address : Addresses]

ReviewCounts == {1, 200}

PortEntities == {"users", "categories", "products", "orders"}

InputsOf(c) ==
    CASE c = "users" -> UserInputs
      [] c = "categories" -> CategoryInputs
      [] c = "products" -> ProductInputs
      [] c = "orders" -> OrderInputs

InitPort ==
    /\ \E b \in Backends : InitStores(b, FirstPricing)
    /\ req = [r \in Reqs |-> Idle]
    /\ received = 0
    /\ callers = << >>
    /\ port = << >>
    /\ calls = 0
    /\ boot = NotStarting
    /\ sent = << >>

\* The id a create call of adapter b assigns, with the generator's next state.
PortGenId(b, c) ==
    CASE b = "mem" -> MemNextId(counters, c)
      [] b = "pg" -> PgNextId(counters, c)
      [] b = "mongo" -> getNextId(counters, c)

\* The record createX stores and returns.
Created(b, c, fields, id, reviewCount) ==
    CASE c = "users" -> NewUser(b, fields, id)
      [] c = "categories" -> NewCategory(b, fields, id)
      [] c = "products" -> NewProduct(b, fields, id, reviewCount)
      [] c = "orders" -> NewOrder(b, fields, id, clock)

\* get-by-id of entity c.
GetById(c, id) ==
    CASE c = "users" -> getUser(users, id)
      [] c = "categories" -> getCategoryById(categories, id)
      [] c = "products" -> getProductById(products, id)
      [] c = "orders" -> getOrderById(orders, id)

Called(call) ==
    /\ calls < MaxCalls
    /\ calls' = calls + 1
    /\ port' = IF port = << >> THEN <<call>> ELSE <<port[Len(port)], call>>

\* createUser / createCategory / createProduct / createOrder called directly.
PortCreate(c, fields, reviewCount) ==
    LET g == PortGenId(backend, c)
        rec == Created(backend, c, fields, g.value, reviewCount)
    IN  /\ fields \in InputsOf(c)
        /\ c # "products" => reviewCount = 1
        /\ Issue(c, g)
        /\ users' = IF c = "users" THEN Insert(backend, users, rec) ELSE users
        /\ categories' = IF c = "categories" THEN Insert(backend, categories, rec)
                         ELSE categories
        /\ products' = IF c = "products" THEN Insert(backend, products, rec) ELSE products
        /\ orders' = IF c = "orders" THEN Insert(backend, orders, rec) ELSE orders
        /\ Called([op |-> "create", entity |-> c, arg |-> 0, result |-> <<rec>>])
        /\ UNCHANGED <<backend, orderItems, cartItems, clock, req, received, callers, boot, sent>>

\* getUser / getCategoryById / getProductById / getOrderById called directly.
PortGetById(c, id) ==
    /\ Called([op |-> "getById", entity |-> c, arg |-> id, result |-> GetById(c, id)])
    /\ UNCHANGED <<backend, products, users, categories, orders, orderItems, cartItems,
                   counters, clock, req, received, issued, callers, boot, sent>>

\* Time passes between calls.
PortTick ==
    /\ clock < MaxClock
    /\ clock' = clock + 1
    /\ UNCHANGED <<backend, products, users, categories, orders, orderItems, cartItems,
                   counters, req, received, issued, callers, port, calls, boot, sent>>

NextPort ==
    \/ \E c \in PortEntities, f \in UserInputs \cup CategoryInputs \cup ProductInputs
                                      \cup OrderInputs, n \in ReviewCounts :
            PortCreate(c, f, n)
    \/ \E c \in PortEntities, id \in 1..MaxCalls : PortGetById(c, id)
    \/ PortTick

SpecPort == InitPort /\ [][NextPort]_vars

\* ------------------------------------------- direct cart calls (SpecCart)
\* The rows and arguments the cart calls are made with.
CartProducts == {1}

CartRowIds == {1, 2}

NewQuantities == {2}

InitCart ==
    /\ \E b \in Backends : InitStores(b, FirstPricing)
    /\ InitRequests

\* One more direct call; the log keeps the last three.
CartCalled(call) ==
    /\ calls < MaxCalls
    /\ calls' = calls + 1
    /\ port' = IF Len(port) < 3 THEN Append(port, call) ELSE Append(Tail(port), call)

CartFrame ==
    UNCHANGED <<backend, products, users, categories, orders, orderItems, clock, req,
                received, callers, boot, sent>>

\* getCartItem(userId, productId) called directly.
PortGetCartItem(u, p) ==
    /\ CartCalled([op |-> "getCartItem", user |-> u, arg |-> p,
                   result |-> getCartItem(cartItems, u, p)])
    /\ UNCHANGED <<cartItems, counters, issued>>
    /\ CartFrame

\* getCartItems(userId) called directly.
PortGetCartItems(u) ==
    /\ CartCalled([op |-> "getCartItems", user |-> u, arg |-> 0,
                   result |-> getCartItems(cartItems, u)])
    /\ UNCHANGED <<cartItems, counters, issued>>
    /\ CartFrame

\* createCartItem({ userId, productId, quantity }) called directly.
PortCreateCartItem(u, p, q) ==
    LET g == PortGenId(backend, "cartItems")
        item == NewRecord(backend, "cartItems",
                          [userId |-> u, productId |-> p, quantity |-> q], g.value)
    IN  /\ CartCalled([op |-> "createCartItem", user |-> u, arg |-> p,
                       result |-> <<item>>])
        /\ cartItems' = Insert(backend, cartItems, item)
        /\ Issue("cartItems", g)
        /\ CartFrame

\* updateCartItem(id, quantity) called directly.
PortUpdateCartItem(id, q) ==
    LET res == updateCartItem(cartItems, id, q)
    IN  /\ CartCalled([op |-> "updateCartItem", user |-> 0, arg |-> id,
                       result |-> res.result])
        /\ cartItems' = res.items
        /\ UNCHANGED <<counters, issued>>
        /\ CartFrame

\* deleteCartItem(id) called directly.
PortDeleteCartItem(id) ==
    LET res == deleteCartItem(backend, cartItems, id)
    IN  /\ CartCalled([op |-> "deleteCartItem", user |-> 0, arg |-> id,
                       result |-> res.result])
        /\ cartItems' = res.items
        /\ UNCHANGED <<counters, issued>>
        /\ CartFrame

\* clearCart(userId) called directly.
PortClearCart(u) ==
    LET res == clearCart(backend, cartItems, u)
    IN  /\ CartCalled([op |-> "clearCart", user |-> u, arg |-> 0,
                       result |-> res.result])
        /\ cartItems' = res.items
        /\ UNCHANGED <<counters, issued>>
        /\ CartFrame

NextCart ==
    \/ \E u \in Users, p \in CartProducts : PortGetCartItem(u, p)
    \/ \E u \in Users : PortGetCartItems(u)
    \/ \E u \in Users, p \in CartProducts, q \in Quantities : PortCreateCartItem(u, p, q)
    \/ \E id \in CartRowIds, q \in NewQuantities : PortUpdateCartItem(id, q)
    \/ \E id \in CartRowIds : PortDeleteCartItem(id)
    \/ \E u \in Users : PortClearCart(u)

SpecCart == InitCart /\ [][NextCart]_vars

\* ------------------------------------------- direct lookups (SpecLookup)
\* The get-by-id and get-by-key operations, and the field each one matches.
LookupField ==
    [getUser |-> "id", getCategoryById |-> "id", getProductById |-> "id",
     getOrderById |-> "id", getUserByUsername |-> "username",
     getUserByEmail |-> "email", getCategoryBySlug |-> "slug"]

LookupOps == DOMAIN LookupField

\* The keys the lookups are called with: one that may exist, one that never does.
LookupKeys(op) ==
    CASE LookupField[op] = "id" -> {1, 9}
      [] LookupField[op] = "username" -> {"admin", "nobody"}
      [] LookupField[op] = "email" -> {"admin@shopease.com", "nobody@x.org"}
      [] LookupField[op] = "slug" -> {"electronics", "none"}

Lookup(op, key) ==
    CASE op = "getUser" -> getUser(users, key)
      [] op = "getCategoryById" -> getCategoryById(categories, key)
      [] op = "getProductById" -> getProductById(products, key)
      [] op = "getOrderById" -> getOrderById(orders, key)
      [] op = "getUserByUsername" -> getUserByUsername(users, key)
      [] op = "getUserByEmail" -> getUserByEmail(users, key)
      [] op = "getCategoryBySlug" -> getCategoryBySlug(categories, key)

\* One of the lookups called directly.
PortLookup(op, key) ==
    /\ CartCalled([op |-> op, user |-> 0, arg |-> key, result |-> Lookup(op, key)])
    /\ UNCHANGED <<cartItems, counters, issued>>
    /\ CartFrame

NextLookup ==
    \/ \E op \in LookupOps : \E key \in LookupKeys(op) : PortLookup(op, key)
    \/ \E u \in Users, p \in CartProducts : PortGetCartItem(u, p)
    \/ \E u \in Users, p \in CartProducts, q \in Quantities : PortCreateCartItem(u, p, q)
    \/ \E id \in CartRowIds, q \in NewQuantities : PortUpdateCartItem(id, q)

SpecLookup == InitCart /\ [][NextLookup]_vars

\* ------------------------------------------------- startup (SpecStart)
\* The module is loaded: export let storage = new MemStorage().
InitStart ==
    /\ InitStores("mem", FirstPricing)
    /\ InitRequests

\* try block, connectToDatabase resolved: a MongoDbStorage is built, assigned
\* to the property `storage` of the global object, and returned.
Connected(bt) ==
    [bt EXCEPT !.pc = "done", !.connected = TRUE, !.global = <<"mongo">>,
               !.returned = <<"mongo">>]

\* Faulty variant of FellBack (used to test the properties): the rejection of
\* connectToDatabase is not caught.
FellBackRaising(bt, st) == [bt EXCEPT !.pc = "done", !.raised = TRUE]

\* catch block: the function returns the module's `storage`.
FellBack(bt, st) == [bt EXCEPT !.pc = "done", !.returned = <<st>>]

StartFrame ==
    UNCHANGED <<products, users, categories, orders, orderItems, cartItems, counters,
                clock, req, received, issued, callers, port, calls, sent>>

\* initializeMongoDbStorage() is called: const client = await connectToDatabase().
InitializeMongoDbStorage ==
    /\ boot.pc = "none"
    /\ boot' = [boot EXCEPT !.pc = "connecting"]
    /\ UNCHANGED backend
    /\ StartFrame

\* The connection is made.  The exported binding `storage` that the route
\* handlers import is not assigned.
ConnectSucceeds ==
    /\ boot.pc = "connecting"
    /\ boot' = Connected(boot)
    /\ UNCHANGED backend
    /\ StartFrame

\* The connection fails.
ConnectFails ==
    /\ boot.pc = "connecting"
    /\ boot' = FellBack(boot, backend)
    /\ UNCHANGED backend
    /\ StartFrame

\* The server's cart routes, served by the imported `storage`.
NextStart ==
    \/ InitializeMongoDbStorage
    \/ ConnectSucceeds
    \/ ConnectFails
    \/ \E r \in Reqs, u \in Users, p \in RequestedProductIds, q \in Quantities :
            AddToCart(r, u, p, q)
    \/ \E r \in Reqs : AddToCartGetCartItem(r)
    \/ \E r \in Reqs : AddToCartUpdate(r)
    \/ \E r \in Reqs : AddToCartCreate(r)
    \/ \E r \in Reqs, u \in Users, id \in CartRowIds : DeleteCartItem(r, u, id)

SpecStart == InitStart /\ [][NextStart]_vars

\* ------------------------------------------------ auth routes (SpecAuth)
Salts == {1, 2}

\* bcrypt.hash(password, salt): the hash depends on the password and the salt.
Hash(password, salt) == <<password, salt>>

\* bcrypt.compare(password, hash).
Compare(password, hash) == hash[1] = password

\* Valid bodies of POST /auth/register; one supplies an isAdmin field.
RegisterBodies ==
    [username : {"ann", "bob"}, email : {"a@x.org", "b@x.org"}, password : {"pw"},
     confirmPassword : {"pw"}]
    \cup {[username |-> "eve", email |-> "e@x.org", password |-> "pw",
            confirmPassword |-> "pw", isAdmin |-> TRUE]}

LoginNames == {"admin", "ann", "eve"}

LoginPasswords == {"pw", "bad"}

TokenUserIds == {1, 2}

\* const { confirmPassword, ...userData } = req.body.
UserData(body) == [f \in DOMAIN body \ {"confirmPassword"} |-> body[f]]

\* Faulty variant of WithoutPassword (used to test the properties): the user
\* object is sent as stored.
WithoutPasswordKept(user) == user

\* const { password, ...userWithoutPassword } = user.
WithoutPassword(user) == [f \in DOMAIN user \ {"password"} |-> user[f]]

\* The payload of jwt.sign.
Token(user) == [id |-> user.id, username |-> user.username]

AuthFrame ==
    UNCHANGED <<backend, products, categories, orders, orderItems, cartItems, clock,
                callers, port, calls, boot>>

\* POST /auth/register, up to the username check: 409 when the name is taken.
Register(r, body) ==
    /\ Receive(r)
    /\ LET taken == Present(getUserByUsername(users, UserData(body).username))
       IN  /\ req' = [req EXCEPT ![r] =
                        IF taken THEN Respond(409)
                        ELSE [kind |-> "register", pc |-> "getUserByEmail",
                              userData |-> UserData(body), newId |-> << >>]]
           /\ sent' = IF taken THEN <<[handler |-> "register", status |-> 409]>>
                      ELSE sent
    /\ UNCHANGED <<users, counters, issued>>
    /\ AuthFrame

\* POST /auth/register: the email check, 409 when the email is taken.
RegisterGetUserByEmail(r) ==
    /\ req[r].pc = "getUserByEmail"
    /\ LET taken == Present(getUserByEmail(users, req[r].userData.email))
       IN  /\ req' = [req EXCEPT ![r] =
                        IF taken THEN Respond(409) ELSE [@ EXCEPT !.pc = "hash"]]
           /\ sent' = IF taken THEN <<[handler |-> "register", status |-> 409]>>
                      ELSE sent
    /\ UNCHANGED <<users, counters, issued, received>>
    /\ AuthFrame

\* POST /auth/register: await bcrypt.genSalt(10), await bcrypt.hash(password, salt).
RegisterHash(r, salt) ==
    /\ req[r].pc = "hash"
    /\ req' = [req EXCEPT ![r].pc = "createUser",
                          ![r].userData.password = Hash(@, salt)]
    /\ UNCHANGED <<users, counters, issued, received, sent>>
    /\ AuthFrame

\* POST /auth/register: createUser({ ...userData, password: hashedPassword }),
\* then 201 with the user without its password, and the token.
RegisterCreateUser(r) ==
    /\ req[r].pc = "createUser"
    /\ CanCreate(r)
    /\ LET user == NewUser(backend, req[r].userData, GenId(r).value)
       IN  /\ users' = Insert(backend, users, user)
           /\ sent' = <<[handler |-> "register", status |-> 201,
                         user |-> WithoutPassword(user), token |-> Token(user)]>>
    /\ IssueCreate(r)
    /\ req' = [req EXCEPT ![r] = Respond(201)]
    /\ UNCHANGED received
    /\ AuthFrame

\* POST /auth/login, up to the user lookup: 401 when no user has the name.
Login(r, username, password) ==
    /\ Receive(r)
    /\ LET user == getUserByUsername(users, username)
       IN  /\ req' = [req EXCEPT ![r] =
                        IF Present(user)
                        THEN [kind |-> "login", pc |-> "compare", user |-> The(user),
                              password |-> password, newId |-> << >>]
                        ELSE Respond(401)]
           /\ sent' = IF Present(user) THEN sent
                      ELSE <<[handler |-> "login", status |-> 401]>>
    /\ UNCHANGED <<users, counters, issued>>
    /\ AuthFrame

\* POST /auth/login: await bcrypt.compare, then 401 or the user without its
\* password, and the token.
LoginCompare(r) ==
    /\ req[r].pc = "compare"
    /\ sent' = IF Compare(req[r].password, req[r].user.password)
               THEN <<[handler |-> "login", status |-> 200,
                       user |-> WithoutPassword(req[r].user),
                       token |-> Token(req[r].user)]>>
               ELSE <<[handler |-> "login", status |-> 401]>>
    /\ req' = [req EXCEPT ![r] = Respond(200)]
    /\ UNCHANGED <<users, counters, issued, received>>
    /\ AuthFrame

\* GET /users/me with a verified token of user id: 404 or the user without its
\* password.
CurrentUser(r, id) ==
    /\ Receive(r)
    /\ LET user == getUser(users, id)
       IN  sent' = IF Present(user)
                   THEN <<[handler |-> "me", status |-> 200,
                           user |-> WithoutPassword(The(user))]>>
                   ELSE <<[handler |-> "me", status |-> 404]>>
    /\ req' = [req EXCEPT ![r] = Respond(200)]
    /\ UNCHANGED <<users, counters, issued>>
    /\ AuthFrame

NextAuth ==
    \/ \E r \in Reqs, body \in RegisterBodies : Register(r, body)
    \/ \E r \in Reqs : RegisterGetUserByEmail(r)
    \/ \E r \in Reqs, salt \in Salts : RegisterHash(r, salt)
    \/ \E r \in Reqs : CreateGetNextId(r)
    \/ \E r \in Reqs : RegisterCreateUser(r)
    \/ \E r \in Reqs, n \in LoginNames, pw \in LoginPasswords : Login(r, n, pw)
    \/ \E r \in Reqs : LoginCompare(r)
    \/ \E r \in Reqs, id \in TokenUserIds : CurrentUser(r, id)

SpecAuth == InitCart /\ [][NextAuth]_vars

\* --------------------------------------- orders and failures (SpecOrders)
\* The totals callers of POST /orders supply; 28 is the sum of the catalog's
\* effective prices, 5 is not a sum of any cart.
OrderTotals == {5, 28}

OrderIdsAsked == {1, 2}

\* Faulty variant of AfterCatch (used to test the properties): the catch block
\* empties the user's cart.
AfterCatchClearing(b, ci, u) == clearCart(b, ci, u).items

\* catch (error) of POST /orders: console.error and 500; the cart is as it was.
AfterCatch(b, ci, u) == ci

OrdersFrame ==
    UNCHANGED <<backend, products, users, categories, clock, callers, port, calls, boot>>

\* An awaited storage call of the checkout rejects at step pc: the catch block
\* answers 500 and the handler ends.
CheckoutCaught(r, pc) ==
    /\ req[r].kind = "checkout"
    /\ req[r].pc = pc
    /\ cartItems' = AfterCatch(backend, cartItems, req[r].user)
    /\ req' = [req EXCEPT ![r] = Respond(500)]
    /\ sent' = <<[handler |-> "checkout", user |-> req[r].user, status |-> 500,
                  step |-> pc]>>
    /\ UNCHANGED <<orders, orderItems, counters, issued, received>>
    /\ OrdersFrame

\* POST /orders: storage.createOrder rejects.
CheckoutCreateOrderFails(r) == CheckoutCaught(r, "createOrder")

\* POST /orders: storage.createOrderItem rejects for the current line.
CheckoutCreateOrderItemFails(r) == CheckoutCaught(r, "createOrderItem")

\* Faulty variant of Owns (used to test the properties): the ownership check
\* is missing.
OwnsAlways(order, u) == TRUE

\* order.userId !== req.userId, negated.
Owns(order, u) == order.userId = u

\* GET /orders/:id, up to the ownership check: 404 when there is no such order,
\* 403 when it is another user's.
GetOrder(r, u, id) ==
    /\ Receive(r)
    /\ LET order == getOrderById(orders, id)
           answer == [handler |-> "getOrder", user |-> u, arg |-> id]
       IN  IF ~Present(order)
           THEN /\ req' = [req EXCEPT ![r] = Respond(404)]
                /\ sent' = <<answer @@
                             [status |-> 404, body |-> [message |-> "Order not found"]]>>
           ELSE IF ~Owns(The(order), u)
           THEN /\ req' = [req EXCEPT ![r] = Respond(403)]
                /\ sent' = <<answer @@
                             [status |-> 403, body |-> [message |-> "Not authorized"]]>>
           ELSE /\ req' = [req EXCEPT ![r] =
                             [kind |-> "getOrder", pc |-> "getOrderItems", user |-> u,
                              arg |-> id, order |-> The(order), items |-> << >>,
                              newId |-> << >>]]
                /\ sent' = sent
    /\ UNCHANGED <<orders, orderItems, cartItems, counters, issued>>
    /\ OrdersFrame

\* GET /orders/:id: const items = await storage.getOrderItems(orderId).
GetOrderGetOrderItems(r) ==
    /\ req[r].pc = "getOrderItems"
    /\ req' = [req EXCEPT ![r].items = getOrderItems(orderItems, req[r].arg),
                          ![r].pc = "getOrderProducts"]
    /\ UNCHANGED <<orders, orderItems, cartItems, counters, issued, received, sent>>
    /\ OrdersFrame

\* { ...item, product: product ? { id, ... } : null }.
EnhancedItem(item, prods) ==
    LET product == getProductById(prods, item.productId)
    IN  item @@ [product |-> IF Present(product) THEN <<[id |-> The(product).id]>>
                             ELSE << >>]

\* GET /orders/:id: getProductsByIds, then res.json({ ...order, items }).
GetOrderGetProducts(r) ==
    /\ req[r].pc = "getOrderProducts"
    /\ LET items == req[r].items
           prods == getProductsByIds(products, {items[i].productId : i \in DOMAIN items})
           enhanced == [i \in DOMAIN items |-> EnhancedItem(items[i], prods)]
       IN  sent' = <<[handler |-> "getOrder", user |-> req[r].user, arg |-> req[r].arg,
                      status |-> 200, body |-> req[r].order @@ [items |-> enhanced]]>>
    /\ req' = [req EXCEPT ![r] = Respond(200)]
    /\ UNCHANGED <<orders, orderItems, cartItems, counters, issued, received>>
    /\ OrdersFrame

NextOrders ==
    \/ \E r \in Reqs, u \in Users, p \in CartProducts, q \in Quantities :
            AddToCart(r, u, p, q)
    \/ \E r \in Reqs : AddToCartGetCartItem(r)
    \/ \E r \in Reqs : AddToCartUpdate(r)
    \/ \E r \in Reqs : AddToCartCreate(r)
    \/ \E r \in Reqs, u \in Users, t \in OrderTotals, a \in Addresses :
            Checkout(r, u, t, a)
    \/ \E r \in Reqs : CreateGetNextId(r)
    \/ \E r \in Reqs : CheckoutCreateOrder(r)
    \/ \E r \in Reqs : CheckoutGetCartItems(r)
    \/ \E r \in Reqs : CheckoutGetProducts(r)
    \/ \E r \in Reqs : CheckoutCreateOrderItem(r)
    \/ \E r \in Reqs : CheckoutClearCart(r)
    \/ \E r \in Reqs : CheckoutCreateOrderFails(r)
    \/ \E r \in Reqs : CheckoutCreateOrderItemFails(r)
    \/ \E r \in Reqs, u \in Users, id \in OrderIdsAsked : GetOrder(r, u, id)
    \/ \E r \in Reqs : GetOrderGetOrderItems(r)
    \/ \E r \in Reqs : GetOrderGetProducts(r)

SpecOrders == Init /\ [][NextOrders]_vars

\* ------------------------------------------------- cart routes (SpecRoutes)
\* The quantity of a PUT /cart/:id body: missing, 0, 2, or a string.
PutQuantities == { << >>, <<0>>, <<2>>, <<NonNumeric>> }

\* PUT /cart/:id: 400 when !quantity || quantity < 1; otherwise
\* updateCartItem(id, quantity), 404 when no row has the id. The handler reads
\* req.userId nowhere. The relational adapter hands the quantity to the
\* database, which may refuse a value that is no number (accepted = FALSE):
\* the handler's catch block then answers 500.
PutCartItem(r, u, id, quantity, accepted) ==
    /\ Receive(r)
    /\ accepted \/ (backend = "pg" /\ quantity = <<NonNumeric>>)
    /\ LET invalid == JsNot(quantity) \/ JsLessThan1(The(quantity))
           res == IF invalid \/ ~accepted
                  THEN [items |-> cartItems, result |-> << >>]
                  ELSE updateCartItem(cartItems, id, The(quantity))
           code == CASE invalid -> 400
                     [] ~accepted -> 500
                     [] ~Present(res.result) -> 404
                     [] OTHER -> 200
       IN  /\ cartItems' = res.items
           /\ req' = [req EXCEPT ![r] = Respond(code)]
           /\ sent' = <<[handler |-> "putCartItem", user |-> u, status |-> code,
                         step |-> "updateCartItem"]>>
    /\ UNCHANGED <<orders, orderItems, counters, issued>>
    /\ UNCHANGED <<backend, products, users, categories, clock, callers, port, calls, boot>>

NextRoutes ==
    \/ \E r \in Reqs, u \in Users, p \in RequestedProductIds, q \in Quantities :
            AddToCart(r, u, p, q)
    \/ \E r \in Reqs : AddToCartGetCartItem(r)
    \/ \E r \in Reqs : AddToCartUpdate(r)
    \/ \E r \in Reqs : AddToCartCreate(r)
    \/ \E r \in Reqs : CreateGetNextId(r)
    \/ \E r \in Reqs, u \in Users, id \in CartRowIds, q \in PutQuantities,
          accepted \in BOOLEAN : PutCartItem(r, u, id, q, accepted)
    \/ \E r \in Reqs, u \in Users, id \in CartRowIds : DeleteCartItem(r, u, id)

SpecRoutes == Init /\ [][NextRoutes]_vars

\* ---------------------------------------- add-to-cart alone (SpecAdd, SpecAddAny)
\* POST /cart requests only, for products of the catalog.
NextAdd ==
    \/ \E r \in Reqs, u \in Users, p \in ProductIds, q \in Quantities :
            AddToCart(r, u, p, q)
    \/ \E r \in Reqs : AddToCartGetCartItem(r)
    \/ \E r \in Reqs : AddToCartUpdate(r)
    \/ \E r \in Reqs : AddToCartCreate(r)
    \/ \E r \in Reqs : CreateGetNextId(r)

SpecAdd == Init /\ [][NextAdd]_vars

\* POST /cart requests only, for any productId.
NextAddAny ==
    \/ \E r \in Reqs, u \in Users, p \in RequestedProductIds, q \in Quantities :
            AddToCart(r, u, p, q)
    \/ \E r \in Reqs : AddToCartGetCartItem(r)
    \/ \E r \in Reqs : AddToCartUpdate(r)
    \/ \E r \in Reqs : AddToCartCreate(r)
    \/ \E r \in Reqs : CreateGetNextId(r)

SpecAddAny == Init /\ [][NextAddAny]_vars

\* ------------------------------------------------------------------ claims
Checkouts == {r \in Reqs : req[r].kind = "checkout"}

\* The step by which checkout r answers 400 "Cart is empty".
Answers400(r) == req[r].pc = "getCartItems" /\ req'[r] = Idle

\* The step by which checkout r clears the cart and answers 201.
ClearsCart(r) == req[r].pc = "clearCart" /\ req'[r] = Idle

\* The cart lines of checkout r that its loop has passed, skipped ones left out.
LinesDone(r) ==
    SelectSeq(SubSeq(req[r].cartSnap, 1, req[r].idx - 1),
              LAMBDA line : Resolves(req[r].prods, line))

\* The OrderItems stored for the Order of checkout r.
ItemsOf(r) == getOrderItems(orderItems, The(req[r].order).id)

\* Whether OrderItems `items` are, one for one and in order, the cart `lines`.
ItemsMatch(items, lines, orderId) ==
    /\ Len(items) = Len(lines)
    /\ \A k \in DOMAIN items :
          /\ items[k].orderId = orderId
          /\ items[k].productId = lines[k].productId
          /\ items[k].quantity = lines[k].quantity
    /\ \A k, m \in DOMAIN items : items[k].id = items[m].id => k = m

\* C1: a checkout that answers 400 for an empty cart has had no side effect:
\* no Order and no OrderItem made by that request is in the store afterwards.
C1_EmptyCartNoSideEffects ==
    [][\A r \in Reqs : Answers400(r) =>
          /\ \A i \in DOMAIN orders' : <<orders'[i]>> # req[r].order
          /\ Present(req[r].order) => getOrderItems(orderItems', The(req[r].order).id) = << >>
      ]_vars

\* C2: within one checkout the cart is found non-empty before the Order is
\* created, the Order exists before any OrderItem is created, and every
\* OrderItem is created before the cart is cleared.
C2_CheckoutStepOrder ==
    \A r \in Checkouts :
        /\ Present(req[r].order) => req[r].cartSnap # << >>
        /\ req[r].pc = "createOrderItem" =>
              /\ Present(req[r].order)
              /\ \E i \in DOMAIN orders : orders[i] = The(req[r].order)
        /\ req[r].pc = "clearCart" =>
              /\ req[r].idx = Len(req[r].cartSnap) + 1
              /\ Len(ItemsOf(r)) = Len(LinesDone(r))

\* The part of C2 that the code keeps: Order before OrderItems before the clear.
C2_LaterStepsInOrder ==
    \A r \in Checkouts :
        /\ req[r].pc = "createOrderItem" =>
              /\ Present(req[r].order)
              /\ \E i \in DOMAIN orders : orders[i] = The(req[r].order)
        /\ req[r].pc = "clearCart" =>
              /\ req[r].idx = Len(req[r].cartSnap) + 1
              /\ Len(ItemsOf(r)) = Len(LinesDone(r))

\* C3: a checkout over a non-empty cart creates exactly one Order and, for each
\* cart line (as its cart listing returned them) whose product resolves, exactly
\* one OrderItem with the new order's id and the line's productId and quantity,
\* and no other OrderItem.  It holds at every point of the item loop and when
\* the loop is over, whatever other requests interleave.
C3_OneOrderOneItemPerLine ==
    \A r \in Checkouts :
        req[r].pc \in {"createOrderItem", "clearCart"} =>
            /\ Cardinality({i \in DOMAIN orders : orders[i].id = The(req[r].order).id}) = 1
            /\ \E i \in DOMAIN orders : orders[i] = The(req[r].order)
            /\ ItemsMatch(ItemsOf(r), LinesDone(r), The(req[r].order).id)

\* C3 witness: a checkout whose loop is over, with two resolving lines ordered.
C3_Witness ==
    \E r \in Checkouts :
        /\ req[r].pc = "clearCart"
        /\ Len(req[r].cartSnap) = 2
        /\ Len(ItemsOf(r)) = 2

\* Effective price as the specification defines it: the sale price when the
\* product is on sale and a sale price is present, the list price otherwise.
EffectivePrice(product) ==
    IF product.isOnSale /\ Present(product.salePrice)
    THEN The(product.salePrice)
    ELSE product.price

\* C4: the price stored on every OrderItem a checkout creates is the effective
\* price of the product as the checkout fetched it.
C4_ItemPriceIsEffectivePrice ==
    \A r \in Checkouts :
        req[r].pc \in {"createOrderItem", "clearCart"} =>
            \A k \in DOMAIN ItemsOf(r) :
                ItemsOf(r)[k].price =
                    EffectivePrice(The(getProductById(req[r].prods, ItemsOf(r)[k].productId)))

\* Whether checkout r skipped a line whose product did not resolve.
SkippedALine(r) ==
    \E k \in DOMAIN req[r].cartSnap : ~Resolves(req[r].prods, req[r].cartSnap[k])

\* C5: when a cart line's product does not resolve, the checkout still has its
\* Order stored, one OrderItem for every resolving line and none for the
\* missing product, and its clearing step removes every listed line, the
\* skipped one included.
C5_SkippedLineStillOrdersAndClears ==
    [][\A r \in Reqs : (ClearsCart(r) /\ SkippedALine(r)) =>
          /\ \E i \in DOMAIN orders' : orders'[i] = The(req[r].order)
          /\ ItemsMatch(getOrderItems(orderItems', The(req[r].order).id),
                        SelectSeq(req[r].cartSnap,
                                  LAMBDA line : Resolves(req[r].prods, line)),
                        The(req[r].order).id)
          /\ \A k \in DOMAIN req[r].cartSnap :
                /\ req[r].cartSnap[k].id \notin Ids(cartItems')
                /\ ~Resolves(req[r].prods, req[r].cartSnap[k]) =>
                      \A m \in DOMAIN orderItems' :
                          orderItems'[m].orderId = The(req[r].order).id =>
                              orderItems'[m].productId # req[r].cartSnap[k].productId
      ]_vars

\* C5 witness: after three requests (two adds and a checkout) product 2 is gone,
\* both cart lines that were created are cleared, and the one Order has the
\* single OrderItem of the surviving product 1.
C5_Witness ==
    /\ received = 3
    /\ \A r \in Reqs : req[r] = Idle
    /\ Ids(products) = {1}
    /\ Len(issued["cartItems"]) = 2
    /\ cartItems = << >>
    /\ Len(orders) = 1
    /\ Len(orderItems) = 1
    /\ orderItems[1].productId = 1
    /\ orderItems[1].orderId = orders[1].id

\* C6: the step by which a checkout clears the cart and returns the order
\* leaves the user's cart listing empty and every other user's cart items as
\* they were.
C6_ClearEmptiesOwnCartOnly ==
    [][\A r \in Reqs : ClearsCart(r) =>
          /\ getCartItems(cartItems', req[r].user) = << >>
          /\ \A u \in Users \ {req[r].user} :
                getCartItems(cartItems', u) = getCartItems(cartItems, u)
      ]_vars

\* C6 witness: after an add by each user and one checkout, the user holding the
\* Order has an empty cart and the other user still has a cart line.
C6_Witness ==
    /\ received = 3
    /\ \A r \in Reqs : req[r] = Idle
    /\ Len(orders) = 1
    /\ Len(orderItems) = 1
    /\ getCartItems(cartItems, orders[1].userId) = << >>
    /\ \E u \in Users \ {orders[1].userId} : Len(getCartItems(cartItems, u)) = 1

\* The ids of the records of a collection.
RecordsOf(c) ==
    CASE c = "users" -> users
      [] c = "categories" -> categories
      [] c = "products" -> products
      [] c = "orders" -> orders
      [] c = "orderItems" -> orderItems
      [] c = "cartItems" -> cartItems

\* C7: for each collection the ids the generator hands out start at 1, each is
\* greater than every id handed out before, and none is handed out again after
\* its record was deleted: no two records share an id and every record's id
\* is one that was issued.
C7_IdsStartAtOneAndIncrease ==
    \A c \in Collections :
        /\ issued[c] # << >> => issued[c][1] = 1
        /\ \A i, j \in DOMAIN issued[c] : i < j => issued[c][i] < issued[c][j]
        /\ \A i, j \in DOMAIN RecordsOf(c) :
              RecordsOf(c)[i].id = RecordsOf(c)[j].id => i = j
        /\ Ids(RecordsOf(c)) \subseteq {issued[c][i] : i \in DOMAIN issued[c]}

\* C7 witness (in-memory counters): after an add, a checkout and another add
\* by the same user, cart line 1 was deleted by the clear and the later add
\* got id 2.
C7_Witness ==
    /\ backend = "mem"
    /\ received = 3
    /\ \A r \in Reqs : req[r] = Idle
    /\ Len(orderItems) = 1
    /\ Len(cartItems) = 1
    /\ cartItems[1].id = 2
    /\ cartItems[1].userId = orders[1].userId
    /\ issued["cartItems"] = <<1, 2>>

\* C7 witness (document store): the same run against getNextId.
C7_WitnessMongo ==
    /\ backend = "mongo"
    /\ received = 3
    /\ \A r \in Reqs : req[r] = Idle
    /\ Len(orderItems) = 1
    /\ Len(cartItems) = 1
    /\ cartItems[1].id = 2
    /\ cartItems[1].userId = orders[1].userId
    /\ issued["cartItems"] = <<1, 2>>

\* C10: there is at most one CartItem for each (userId, productId) pair.
C10_OneCartItemPerUserAndProduct ==
    \A i, j \in DOMAIN cartItems :
        (cartItems[i].userId = cartItems[j].userId
         /\ cartItems[i].productId = cartItems[j].productId) => i = j

\* C8: the values concurrent getNextId calls for one collection have returned
\* are pairwise distinct and consecutive.
C8_ConcurrentIdsDistinctAndConsecutive ==
    \A c \in SeqCollections :
        LET done == {k \in Callers : callers[k].pc = "returned" /\ callers[k].coll = c}
            vals == {callers[k].value : k \in done}
        IN  /\ Cardinality(vals) = Cardinality(done)
            /\ \A v \in vals : (\A w \in vals : v <= w) \/ (v - 1) \in vals

\* C8 witness: every caller has called getNextId for the orders collection and
\* got its value.
C8_Witness ==
    \A k \in Callers : callers[k].pc = "returned" /\ callers[k].coll = "orders"

\* C9: a create call followed directly by get-by-id of the id it returned
\* yields a record equal to the one create returned.
C9_CreateThenGetById ==
    (/\ Len(port) = 2
     /\ port[1].op = "create"
     /\ port[2].op = "getById"
     /\ port[2].entity = port[1].entity
     /\ port[2].arg = The(port[1].result).id) => port[2].result = port[1].result

\* C9 witness: in the document store, a second Order was created and then
\* fetched by its id.
C9_Witness ==
    /\ backend = "mongo"
    /\ Len(port) = 2
    /\ port[1].op = "create"
    /\ port[1].entity = "orders"
    /\ port[2].op = "getById"
    /\ port[2].entity = "orders"
    /\ port[2].arg = The(port[1].result).id
    /\ Len(orders) = 2
    /\ Present(port[2].result)


\* The last direct call, once one was made.
LastCall == port[Len(port)]

\* C11: after getCartItem found no row for (userId, productId) and
\* createCartItem created one, getCartItem for the same pair returns the
\* created row, and exactly one row of the pair exists.
C11_CheckThenCreateThenGet ==
    (/\ Len(port) = 3
     /\ port[1].op = "getCartItem" /\ ~Present(port[1].result)
     /\ port[2].op = "createCartItem"
     /\ port[2].user = port[1].user /\ port[2].arg = port[1].arg
     /\ port[3].op = "getCartItem"
     /\ port[3].user = port[1].user /\ port[3].arg = port[1].arg)
    => /\ port[3].result = port[2].result
       /\ Cardinality({i \in DOMAIN cartItems :
                         /\ cartItems[i].userId = port[1].user
                         /\ cartItems[i].productId = port[1].arg}) = 1

\* C11 witness: the three calls were made for user 2 in the document store.
C11_Witness ==
    /\ backend = "mongo"
    /\ Len(port) = 3
    /\ port[1].op = "getCartItem" /\ ~Present(port[1].result) /\ port[1].user = 2
    /\ port[2].op = "createCartItem" /\ port[2].user = 2
    /\ port[3].op = "getCartItem" /\ port[3].user = 2 /\ Present(port[3].result)

\* C12: a clearCart(userId) call leaves getCartItems(userId) empty and every
\* other user's cart items as they were.
C12_ClearCartFrame ==
    [][(calls' = calls + 1 /\ port'[Len(port')].op = "clearCart")
       => LET u == port'[Len(port')].user
          IN  /\ getCartItems(cartItems', u) = << >>
              /\ \A v \in Users \ {u} :
                    getCartItems(cartItems', v) = getCartItems(cartItems, v)]_vars

\* C12 witness: a user with a cart item cleared the cart while another user
\* had an item, which is still there.
C12_Witness ==
    /\ Len(port) = 3
    /\ port[1].op = "createCartItem"
    /\ port[2].op = "createCartItem" /\ port[2].user # port[1].user
    /\ port[3].op = "clearCart" /\ port[3].user = port[1].user
    /\ Len(cartItems) = 1

\* C13: the boolean a deleteCartItem(id) or clearCart(userId) call returns is
\* the one every adapter returns for the same call on the same cart rows.
C13_AdaptersAgree ==
    [][(calls' = calls + 1 /\ port'[Len(port')].op \in {"deleteCartItem", "clearCart"})
       => LET call == port'[Len(port')]
          IN  \A b \in Backends :
                call.result =
                  IF call.op = "deleteCartItem"
                  THEN deleteCartItem(b, cartItems, call.arg).result
                  ELSE clearCart(b, cartItems, call.user).result]_vars

\* The collection a lookup reads.
LookupStore(op) ==
    CASE op \in {"getUser", "getUserByUsername", "getUserByEmail"} -> users
      [] op \in {"getCategoryById", "getCategoryBySlug"} -> categories
      [] op = "getProductById" -> products
      [] op = "getOrderById" -> orders

\* Whether some record matches the key of the call.
MatchesARecord(call) ==
    CASE call.op \in LookupOps ->
            \E i \in DOMAIN LookupStore(call.op) :
                LookupStore(call.op)[i][LookupField[call.op]] = call.arg
      [] call.op = "updateCartItem" ->
            \E i \in DOMAIN cartItems : cartItems[i].id = call.arg
      [] call.op = "getCartItem" ->
            \E i \in DOMAIN cartItems :
                cartItems[i].userId = call.user /\ cartItems[i].productId = call.arg
      [] OTHER -> TRUE

\* C14: a get-by-id, get-by-key or updateCartItem call whose key matches no
\* record returns an absent result and leaves every collection unchanged.
C14_NoMatchIsAbsentAndChangesNothing ==
    [][(calls' = calls + 1 /\ ~MatchesARecord(port'[Len(port')]))
       => /\ ~Present(port'[Len(port')].result)
          /\ UNCHANGED <<products, users, categories, orders, orderItems, cartItems>>]_vars

\* C14 witness: updateCartItem was called with an id no row has while the
\* cart had a row, and returned an absent result.
C14_Witness ==
    /\ port # << >>
    /\ LastCall.op = "updateCartItem"
    /\ ~Present(LastCall.result)
    /\ cartItems # << >>

\* C15: when the connection fails, initializeMongoDbStorage raises nothing and
\* returns the in-memory storage, which is the storage the handlers call.
C15_FallbackIsInMemory ==
    (boot.pc = "done" /\ ~boot.connected)
    => /\ ~boot.raised
       /\ boot.returned = <<"mem">>
       /\ backend = "mem"

\* C15 witness: the connection failed and the handlers have stored a cart row.
C15_Witness ==
    /\ boot.pc = "done"
    /\ ~boot.connected
    /\ cartItems # << >>

\* C16: once initializeMongoDbStorage has succeeded, the storage the route
\* handlers call is the MongoDbStorage instance.
C16_HandlersUseMongoAfterSuccess ==
    (boot.pc = "done" /\ boot.connected) => backend = "mongo"

\* C17: every User has isAdmin = FALSE in every state, whatever fields the
\* caller of createUser supplied: none is created with the flag set and no
\* operation sets it later.
C17_IsAdminAlwaysFalse == \A i \in DOMAIN users : users[i].isAdmin = FALSE

\* C17 witness: a registration whose body supplied isAdmin = true has created
\* its user.
C17_Witness ==
    /\ \E i \in DOMAIN users : users[i].username = "eve"
    /\ Present(sent)
    /\ The(sent).handler = "register"
    /\ The(sent).status = 201

\* The password hashes a stored user can have.
Hashes == {Hash(pw, salt) : pw \in LoginPasswords, salt \in Salts \cup {0}}

\* C18: the user object of a register, login or current-user response has no
\* password field, and is the same whatever password hash the user is stored
\* with.
C18_ResponsesCarryNoPassword ==
    (Present(sent) /\ The(sent).status \in {200, 201})
    => LET answer == The(sent).user
           stored == The(getUser(users, answer.id))
       IN  /\ "password" \notin DOMAIN answer
           /\ \A h \in Hashes :
                 WithoutPassword([stored EXCEPT !.password = h]) = answer

\* C18 witness: a login with the right password was answered with the user.
C18_Witness ==
    /\ Present(sent)
    /\ The(sent).handler = "login"
    /\ The(sent).status = 200
    /\ The(sent).user.username = "ann"

\* C20: in the in-memory store no two User records share a username and no
\* two share an email.
C20_UsernamesAndEmailsUnique ==
    backend = "mem"
    => \A i \in DOMAIN users, j \in DOMAIN users :
         (users[i].username = users[j].username \/ users[i].email = users[j].email)
         => i = j

\* C19: no step modifies or removes an existing Order or OrderItem, a change of
\* a product's price, isOnSale or salePrice included.
C19_OrdersAndItemsImmutable ==
    [][/\ Len(orders') >= Len(orders)
       /\ \A i \in DOMAIN orders : orders'[i] = orders[i]
       /\ Len(orderItems') >= Len(orderItems)
       /\ \A i \in DOMAIN orderItems : orderItems'[i] = orderItems[i]]_vars

\* C19 witness: an OrderItem was created at the sale price 8 and its product
\* has since been repriced to 30.
C19_Witness ==
    \E i \in DOMAIN orderItems :
        /\ orderItems[i].productId = 1
        /\ orderItems[i].price = 8
        /\ Present(getProductById(products, 1))
        /\ The(getProductById(products, 1)).price = 30

\* C21: when createOrderItem fails for one cart line, the Order stays created,
\* every other resolving line has its OrderItem, and the user's cart is cleared.
C21_LineFailureNotFatal ==
    [][\A r \in Reqs :
         (req[r].pc = "createOrderItem" /\ req'[r].pc = "idle")
         => LET order == The(req[r].order)
                others == SelectSeq(req[r].cartSnap,
                                    LAMBDA l : /\ Resolves(req[r].prods, l)
                                               /\ l # req[r].cartSnap[req[r].idx])
            IN  /\ Present(getOrderById(orders', order.id))
                /\ \A k \in DOMAIN others :
                      \E i \in DOMAIN orderItems' :
                          /\ orderItems'[i].orderId = order.id
                          /\ orderItems'[i].productId = others[k].productId
                /\ getCartItems(cartItems', req[r].user) = << >>]_vars

\* C22: when createOrder fails, the request is answered 500, no Order and no
\* OrderItem is created and no cart item changes.
C22_OrderFailureAbortsAll ==
    [][\A r \in Reqs :
         (req[r].pc = "createOrder" /\ req'[r].pc = "idle")
         => /\ orders' = orders
            /\ orderItems' = orderItems
            /\ cartItems' = cartItems
            /\ Present(sent') /\ The(sent').status = 500]_vars

\* C22 witness: a checkout of a user with a cart item failed at createOrder;
\* there is no Order and the cart item is still there.
C22_Witness ==
    /\ Present(sent)
    /\ The(sent).handler = "checkout"
    /\ The(sent).step = "createOrder"
    /\ orders = << >>
    /\ getCartItems(cartItems, The(sent).user) # << >>

\* C25: the Order a checkout creates has the requesting user's id, status
\* "pending", and the total and address the caller supplied; stored Orders
\* keep their fields afterwards.
C25_OrderFieldsAsSupplied ==
    [][/\ \A r \in Reqs :
            (req[r].pc = "createOrder" /\ req'[r].pc = "getCartItems")
            => LET stored == The(getOrderById(orders', The(req'[r].order).id))
               IN  /\ stored = The(req'[r].order)
                   /\ stored.userId = req[r].user
                   /\ stored.status = "pending"
                   /\ stored.total = req[r].total
                   /\ stored.address = req[r].address
       /\ \A i \in DOMAIN orders : orders'[i] = orders[i]]_vars

\* C25 witness: a checkout with total 5 over a cart worth 8 has completed and
\* its Order holds total 5.
C25_Witness ==
    /\ \A r \in Reqs : Free(r)
    /\ Len(orders) = 1
    /\ orders[1].total = 5
    /\ Len(orderItems) = 1
    /\ orderItems[1].price = 8
    /\ cartItems = << >>

\* C29: GET /orders/:id answers 200 only with an order of the requesting user
\* and that order's items; for another user's order it answers 403 with the
\* fixed message and nothing of the order.
C29_OnlyOwnerReadsOrder ==
    (Present(sent) /\ The(sent).handler = "getOrder")
    => LET answer == The(sent)
           order == getOrderById(orders, answer.arg)
       IN  /\ answer.status = 200
               => /\ answer.body.userId = answer.user
                  /\ answer.body.id = answer.arg
                  /\ \A i \in DOMAIN answer.body.items :
                        answer.body.items[i].orderId = answer.arg
           /\ (Present(order) /\ The(order).userId # answer.user)
               => answer.status \in {403, 404}
           /\ answer.status = 403
               => /\ answer.body = [message |-> "Not authorized"]
                  /\ Present(order) /\ The(order).userId # answer.user

\* C29 witness: user 2 asked for an order of user 1 that has an item and was
\* answered 403.
C29_Witness ==
    /\ Present(sent)
    /\ The(sent).handler = "getOrder"
    /\ The(sent).status = 403
    /\ The(sent).user = 2
    /\ getOrderItems(orderItems, The(sent).arg) # << >>

\* C23: two checkouts of one user that are in flight together each have an
\* Order of their own in the store, and each checkout's cart clear leaves the
\* user's cart empty, so the cart is empty after both.
C23_ConcurrentCheckoutsNotDeduplicated ==
    [][/\ \A r1 \in Checkouts, r2 \in Checkouts :
            (/\ r1 # r2
             /\ req[r1].user = req[r2].user
             /\ Present(req[r1].order)
             /\ Present(req[r2].order))
            => /\ The(req[r1].order).id # The(req[r2].order).id
               /\ Present(getOrderById(orders, The(req[r1].order).id))
               /\ Present(getOrderById(orders, The(req[r2].order).id))
       /\ \A r \in Reqs :
            ClearsCart(r) => getCartItems(cartItems', req[r].user) = << >>]_vars

\* C23 witness: both checkouts of a user are over; each made an Order and an
\* OrderItem for the same cart line, and the cart is empty.
C23_Witness ==
    /\ \A r \in Reqs : Free(r)
    /\ Len(orders) = 2
    /\ orders[1].userId = orders[2].userId
    /\ Len(orderItems) = 2
    /\ orderItems[1].orderId # orderItems[2].orderId
    /\ orderItems[1].productId = orderItems[2].productId
    /\ getCartItems(cartItems, orders[1].userId) = << >>

\* C27: every cart row a checkout's cart clear removes has an OrderItem of the
\* created order with its productId and quantity, or refers to a product that
\* is not in the catalog.
C27_ClearedLinesWereOrdered ==
    [][\A r \in Reqs :
         ClearsCart(r)
         => \A k \in DOMAIN cartItems :
              (cartItems[k].userId = req[r].user
               /\ ~\E m \in DOMAIN cartItems' : cartItems'[m].id = cartItems[k].id)
              => \/ ~Present(getProductById(products, cartItems[k].productId))
                 \/ \E i \in DOMAIN orderItems :
                       /\ orderItems[i].orderId = The(req[r].order).id
                       /\ orderItems[i].productId = cartItems[k].productId
                       /\ orderItems[i].quantity = cartItems[k].quantity]_vars

C26_OnlyOwnCartItemsTouched ==
    [][\A r \in Reqs, u \in Users, id \in CartRowIds :
         (\/ DeleteCartItem(r, u, id)
          \/ \E q \in PutQuantities, accepted \in BOOLEAN :
                PutCartItem(r, u, id, q, accepted))
         => \A k \in DOMAIN cartItems :
              cartItems[k].userId # u
              => \E m \in DOMAIN cartItems' : cartItems'[m] = cartItems[k]]_vars

\* The sum of the quantities of the rows of a cart collection.
RECURSIVE SumOfQuantities(_)
SumOfQuantities(ci) ==
    IF ci = << >> THEN 0 ELSE Head(ci).quantity + SumOfQuantities(Tail(ci))

\* C28: with add-to-cart requests only, each of quantity 1 for a product of the
\* catalog, once every request is over the quantities in the cart add up to
\* the number of requests: no added quantity is lost.
C28_NoAddedQuantityLost ==
    (\A r \in Reqs : Free(r)) => SumOfQuantities(cartItems) = received

=============================================================================
